---- MODULE Spec2Model ----
(***************************************************************************)
(* A model of cflearn.models.ddr.core.DDRCore: its construction, the       *)
(* forward call with its median branch, quantile direction, CDF direction  *)
(* and round trips, and the gradient-isolation toggle of _detach_q.        *)
(*                                                                         *)
(* Tensors are abstracted to a record [kind, data]: kind is "Tensor" or    *)
(* "None" (python None), data is one entry per example of the batch where  *)
(* the claims read it (quantile levels, the sign mask, which residual was  *)
(* selected) and <<>> elsewhere.  Quantile levels are counted in quarters: *)
(* level n stands for q = n / 4, so that q = 0.5 is level 2.               *)
(***************************************************************************)
EXTENDS Integers, Sequences, FiniteSets, TLC

VARIABLES
    pc,             \* position of the constructor / life cycle of the instance
    init_args,      \* the arguments DDRCore.__init__ was called with
    self,           \* the attributes assigned on the instance so far (name -> value)
    blocks,         \* self.blocks: the coupling blocks appended so far
    err,            \* the error the constructor raised, "" when none
    requires_grad,  \* the requires_grad flag of every parameter that exists
    threads,        \* the threads of control that call forward on the instance
    stack,          \* per thread: the frames forward / _q_results / _y_results
    call,           \* per thread: the arguments of the current or last forward call
    outcome,        \* per thread: "idle", "running", "returned" or "raised"
    results,        \* per thread: the mapping the last forward call returned
    pre_flags,      \* per thread: requires_grad as it was when the call started
    pairs,          \* per thread: widths <<w1, w2>> of the latent pairs the call created
    trace,          \* per thread: direction passes and block operators applied
    serialized,     \* whether the callers serialize their forward calls on the instance
    lat,            \* a latent pair travelling through a stack of coupling blocks
    fs              \* the saving folder and the progress of cflearn.save / cflearn.load

\* the variables of DDRCore and of its callers
CoreVars == <<pc, init_args, self, blocks, err, requires_grad, threads, stack,
              call, outcome, results, pre_flags, pairs, trace>>
\* the variables no method of DDRCore reads or writes
AuxVars == <<serialized, lat, fs>>

vars == <<pc, init_args, self, blocks, err, requires_grad, threads, stack,
          call, outcome, results, pre_flags, pairs, trace, serialized, lat, fs>>

\* ---------------------------------------------------------------- bounds
MaxBatch == 2
\* the longest coupling stack a latent pair is sent through
MaxStackBlocks == 4
\* latent values range over -MaxLatent..MaxLatent
MaxLatent == 1
\* the most wrappers one cflearn.save call is given
MaxWrappers == 3

\* ---------------------------------------------------------------- values
None == <<>>
Some(x) == <<x>>
IsNone(o) == o = <<>>
Val(o) == o[1]

NoneV == [kind |-> "None", data |-> <<>>]
Tensor(d) == [kind |-> "Tensor", data |-> d]
Fill(n, x) == [i \in 1..n |-> x]

DefaultNumLayers == 1
DefaultNumBlocks == 2
DefaultLatentDim == 512

\* the inputs the constructor is exercised with
InDims == {0, 8}
NumLayersArgs == {None}
NumBlocksArgs == {None, Some(-2), Some(0), Some(1), Some(2), Some(3)}
LatentDimArgs == {None, Some(3)}
\* quantile levels in quarters: 0.25, 0.5, 0.75
QLevels == {1, 2, 3}

\* ---------------------------------------------------------------- modules
Identity == [kind |-> "Identity", params |-> {}, cond |-> {},
             in_dim |-> 0, out_dim |-> 0]

\* monotonous_builder(...)._split_core: a MonoSplit of two conditional
\* mappings; `shared` is invertible_module.from_latent when one is given
\* (its condition blocks are reused), and Identity otherwise.
SplitCore(name, to_latent, has_invertible, shared, in_dim, out_dim) ==
    LET i == IF to_latent THEN in_dim ELSE in_dim \div 2
        o == IF to_latent THEN out_dim \div 2 ELSE out_dim
        reuse == has_invertible /\ shared.kind # "Identity" /\ shared.cond # {}
        cond == IF reuse THEN shared.cond ELSE {<<name, 1>>}
    IN [kind |-> "MonoSplit", params |-> {<<name, 0>>} \cup cond, cond |-> cond,
        in_dim |-> i, out_dim |-> o]

\* PseudoInvertibleBlock(1, latent_dim, 3, to_builder, from_builder)
PseudoInvertibleBlock(to_latent, from_latent) ==
    [to_latent |-> to_latent, from_latent |-> from_latent]

\* InvertibleBlock(latent_dim, ...) splits its width into two equal halves
InvertibleBlockRejects(dim) == dim % 2 # 0

BlockParam(i) == <<"blocks", i>>

\* misc.toolkit.switch_requires_grad(params, requires_grad)
switch_requires_grad(rg, params, flag) ==
    [p \in DOMAIN rg |-> IF p \in params THEN flag ELSE rg[p]]

NewParams(rg, ps) == [p \in ps |-> TRUE] @@ rg

\* ---------------------------------------------------------------- construction
\* no constructor call in progress: its arguments and locals do not exist
NoArgs == [in_dim |-> 0, fetch_q |-> FALSE, fetch_cdf |-> FALSE,
           num_layers |-> None, num_blocks |-> None, latent_dim |-> None]

FetchCheckFails_mut(fetch_q, fetch_cdf) == ~fetch_q \/ ~fetch_cdf
FetchCheckFails(fetch_q, fetch_cdf) == ~fetch_q /\ ~fetch_cdf

NumBlocksCheckFails_mut(num_blocks) == FALSE
NumBlocksCheckFails(num_blocks) == num_blocks % 2 # 0

CallVars == <<stack, call, outcome, results, pre_flags, pairs, trace>>

\* DDRCore(in_dim, fetch_q, fetch_cdf, num_layers, num_blocks, latent_dim)
Construct(in_dim, fetch_q, fetch_cdf, num_layers, num_blocks, latent_dim) ==
    /\ pc = "new"
    /\ init_args' = [in_dim |-> in_dim, fetch_q |-> fetch_q, fetch_cdf |-> fetch_cdf,
                     num_layers |-> num_layers, num_blocks |-> num_blocks,
                     latent_dim |-> latent_dim]
    /\ pc' = "check_fetch"
    /\ UNCHANGED <<self, blocks, err, requires_grad, threads, CallVars>>
    /\ UNCHANGED AuxVars

InitCheckFetch ==
    /\ pc = "check_fetch"
    /\ IF FetchCheckFails(init_args.fetch_q, init_args.fetch_cdf)
       THEN /\ err' = "something must be fetched, either q or cdf"
            /\ pc' = "failed"
            /\ UNCHANGED self
       ELSE /\ self' = ("fetch_q" :> init_args.fetch_q)
                       @@ ("fetch_cdf" :> init_args.fetch_cdf) @@ self
            /\ pc' = "check_blocks"
            /\ UNCHANGED err
    /\ UNCHANGED <<init_args, blocks, requires_grad, threads, CallVars>>
    /\ UNCHANGED AuxVars

NumLayers == IF IsNone(init_args.num_layers) THEN DefaultNumLayers
             ELSE Val(init_args.num_layers)
NumBlocks == IF IsNone(init_args.num_blocks) THEN DefaultNumBlocks
             ELSE Val(init_args.num_blocks)
LatentDim == IF IsNone(init_args.latent_dim) THEN DefaultLatentDim
             ELSE Val(init_args.latent_dim)

InitCheckBlocks ==
    /\ pc = "check_blocks"
    /\ IF NumBlocksCheckFails(NumBlocks)
       THEN /\ err' = "num_blocks should be divided by 2"
            /\ pc' = "failed"
            /\ UNCHANGED self
       ELSE /\ self' = ("latent_dim" :> LatentDim) @@ self
            /\ pc' = "q_invertible"
            /\ UNCHANGED err
    /\ UNCHANGED <<init_args, blocks, requires_grad, threads, CallVars>>
    /\ UNCHANGED AuxVars

InitQInvertible ==
    /\ pc = "q_invertible"
    /\ LET to == IF ~self["fetch_q"] THEN Identity
                 ELSE SplitCore("q.to_latent", TRUE, FALSE,
                                Identity, 1, self["latent_dim"])
           from == IF ~self["fetch_cdf"] THEN Identity
                   ELSE SplitCore("q.from_latent", FALSE, FALSE,
                                  Identity, self["latent_dim"], 3)
       IN /\ self' = ("q_invertible" :> PseudoInvertibleBlock(to, from)) @@ self
          /\ requires_grad' = NewParams(requires_grad, to.params \cup from.params)
    /\ pc' = "y_invertible"
    /\ UNCHANGED <<init_args, blocks, err, threads, CallVars>>
    /\ UNCHANGED AuxVars

InitYInvertible ==
    /\ pc = "y_invertible"
    /\ LET to == IF ~self["fetch_cdf"] THEN Identity
                 ELSE SplitCore("y.to_latent", TRUE, FALSE,
                                Identity, 1, self["latent_dim"])
           from == IF ~self["fetch_q"] THEN Identity
                   ELSE SplitCore("y.from_latent", FALSE, TRUE,
                                  self["q_invertible"].from_latent,
                                  self["latent_dim"], 3)
       IN /\ self' = ("y_invertible" :> PseudoInvertibleBlock(to, from)) @@ self
          /\ requires_grad' = NewParams(requires_grad, to.params \cup from.params)
    /\ pc' = "q_parameters"
    /\ UNCHANGED <<init_args, blocks, err, threads, CallVars>>
    /\ UNCHANGED AuxVars

InitQParameters ==
    /\ pc = "q_parameters"
    /\ LET qp == IF ~self["fetch_q"] THEN {}
                 ELSE self["q_invertible"].to_latent.params
                      \cup self["y_invertible"].from_latent.params
       IN self' = ("q_parameters" :> qp) @@ ("num_blocks" :> NumBlocks)
                  @@ ("block_parameters" :> {}) @@ self
    /\ pc' = "blocks"
    /\ UNCHANGED <<init_args, blocks, err, requires_grad, threads, CallVars>>
    /\ UNCHANGED AuxVars

\* one iteration of `for _ in range(num_blocks)`
InitBlock ==
    /\ pc = "blocks"
    /\ Len(blocks) < self["num_blocks"]
    /\ IF InvertibleBlockRejects(self["latent_dim"])
       THEN /\ err' = "dim should be divided by 2"
            /\ pc' = "failed"
            /\ UNCHANGED <<self, blocks, requires_grad>>
       ELSE LET p == BlockParam(Len(blocks))
            IN /\ blocks' = Append(blocks, Len(blocks))
               /\ self' = ("block_parameters" :> (self["block_parameters"] \cup {p}))
                          @@ self
               /\ requires_grad' = NewParams(requires_grad, {p})
               /\ UNCHANGED <<pc, err>>
    /\ UNCHANGED <<init_args, threads, CallVars>>
    /\ UNCHANGED AuxVars

\* the loop is over: __init__ returns and its arguments and locals are gone
InitReturn ==
    /\ pc = "blocks"
    /\ ~(Len(blocks) < self["num_blocks"])
    /\ pc' = "ready"
    /\ init_args' = NoArgs
    /\ UNCHANGED <<self, blocks, err, requires_grad, threads, CallVars>>
    /\ UNCHANGED AuxVars

\* between calls the training procedure or the caller freezes or unfreezes
\* the core: nn.Module.requires_grad_(flag) sets the flag of every parameter
RequiresGrad_(flag) ==
    /\ pc = "ready"
    /\ \A t \in threads : outcome[t] = "idle"
    /\ requires_grad' = [p \in DOMAIN requires_grad |-> flag]
    /\ UNCHANGED <<pc, init_args, self, blocks, err, threads, CallVars>>
    /\ UNCHANGED AuxVars

\* ---------------------------------------------------------------- forward: helpers
Frame(fn, pos, do_inverse, batch) ==
    [fn |-> fn, pos |-> pos, do_inverse |-> do_inverse, batch |-> batch,
     q |-> <<>>, i |-> 0, res |-> <<>>, inv |-> NoneV, in_with |-> FALSE]

Depth(t) == Len(stack[t])
Top(t) == stack[t][Len(stack[t])]
At(t, fn, pos) == /\ stack[t] # <<>>
                  /\ Top(t).fn = fn
                  /\ Top(t).pos = pos
SetTop(t, f) == [stack EXCEPT ![t] = [@ EXCEPT ![Len(@)] = f]]
Push(t, f, g) == [stack EXCEPT ![t] = Append([@ EXCEPT ![Len(@)] = f], g)]

\* what the caller does with the mapping a nested call returns:
\* forward: results.update(...); _q_results: q_inverse = inverse_results["q"];
\* _y_results: y_inverse_res = inverse_results["y_res"]
Deliver(parent, child_res) ==
    IF parent.fn = "forward" THEN [parent EXCEPT !.res = child_res @@ parent.res]
    ELSE IF parent.fn = "q" THEN [parent EXCEPT !.inv = child_res["q"]]
    ELSE [parent EXCEPT !.inv = child_res["y_res"]]

Pop(t, child_res) ==
    LET n == Len(stack[t])
        rest == SubSeq(stack[t], 1, n - 1)
    IN [stack EXCEPT ![t] = [rest EXCEPT ![n - 1] = Deliver(rest[n - 1], child_res)]]

\* q_fn: 2q - 1, on levels counted in quarters (scaled by 4)
q_fn(q) == 2 * q - 4

\* torch.sign
Sign(x) == IF x > 0 THEN 1 ELSE IF x < 0 THEN -1 ELSE 0

\* torch.where(mask, a, b), elementwise
Where(mask, a, b) == [i \in DOMAIN mask |-> IF mask[i] THEN a[i] ELSE b[i]]

\* _get_median_outputs: the three condition channels of the inverse projection
GetMedianOutputs(n) ==
    ("median" :> Tensor(Fill(n, "median")))
    @@ ("pos_med_res" :> Tensor(Fill(n, "pos_med_res")))
    @@ ("neg_med_res" :> Tensor(Fill(n, "neg_med_res")))

PositiveMask_mut(q) == [i \in DOMAIN q |-> Sign(q[i]) # -1]
\* q_positive_mask = torch.sign(q_batch) == 1.0
PositiveMask(q) == [i \in DOMAIN q |-> Sign(q[i]) = 1]

MergeQOutputs_mut(q, median_outputs) ==
    LET mask == PositiveMask(q)
        med_res == Where(mask, median_outputs["pos_med_res"].data,
                         median_outputs["neg_med_res"].data)
    IN ("y_res" :> Tensor([i \in DOMAIN q |-> <<med_res[i], "med_mul", "med_add">>]))
       @@ ("med_add" :> Tensor(Fill(Len(q), "med_add")))
       @@ ("med_mul" :> Tensor(Fill(Len(q), "med_mul")))
       @@ ("q_positive_mask" :> Tensor(mask))
\* _merge_q_outputs(q_batch, outputs, median_outputs), q_batch already rescaled
MergeQOutputs(q, median_outputs) ==
    LET mask == PositiveMask(q)
        med_res == Where(mask, median_outputs["pos_med_res"].data,
                         median_outputs["neg_med_res"].data)
    IN ("y_res" :> Tensor([i \in DOMAIN q |-> <<med_res[i], "med_mul", "med_add">>]))
       @@ ("med_add" :> Tensor(Fill(Len(q), "med_add")))
       @@ ("med_mul" :> Tensor(Fill(Len(q), "med_mul")))
       @@ ("med_res" :> Tensor(med_res))
       @@ ("q_positive_mask" :> Tensor(mask))

QBranchTaken_anyfetch(fetch_q, median, q_batch) == ~median /\ q_batch.kind # "None"
QBranchTaken_mut(fetch_q, median, q_batch) == fetch_q /\ q_batch.kind # "None"
\* if self.fetch_q and not median and q_batch is not None
QBranchTaken(fetch_q, median, q_batch) ==
    fetch_q /\ ~median /\ q_batch.kind # "None"

YBranchTaken_mut(fetch_cdf, median, y_batch) == fetch_cdf /\ y_batch.kind # "None"
\* if self.fetch_cdf and not median and y_batch is not None
YBranchTaken(fetch_cdf, median, y_batch) ==
    fetch_cdf /\ ~median /\ y_batch.kind # "None"

QInverseTaken_mut(do_inverse, fetch_cdf) == fetch_cdf
\* if do_inverse and self.fetch_cdf
QInverseTaken(do_inverse, fetch_cdf) == do_inverse /\ fetch_cdf
\* if do_inverse and self.fetch_q
YInverseTaken(do_inverse, fetch_q) == do_inverse /\ fetch_q

StoreQInverse_mut(res, q_inverse) ==
    IF q_inverse.kind = "None" THEN res ELSE ("q_inverse" :> q_inverse) @@ res
\* results["q_inverse"] = q_inverse
StoreQInverse(res, q_inverse) == ("q_inverse" :> q_inverse) @@ res

\* return {"q": q, "q_logit": q_logit, "y_inverse_res": y_inverse_res}
YResults(q, q_logit, y_inverse_res) ==
    ("q" :> q) @@ ("q_logit" :> q_logit) @@ ("y_inverse_res" :> y_inverse_res)

\* q1, q2 = block(q1, q2)
QOperator == "forward"

YOperator_mut == "forward"
\* y1, y2 = self.blocks[...].inverse(y1, y2)
YOperator == "inverse"

YBlockIndex_mut(num_blocks, i) == i
\* self.blocks[self.num_blocks - i - 1]
YBlockIndex(num_blocks, i) == num_blocks - i - 1

NestedDoInverse_mut(do_inverse) == do_inverse
\* the round trip calls _y_results(net, y_res.detach()) / _q_results(net, q.detach())
\* without do_inverse, which defaults to False
NestedDoInverse(do_inverse) == FALSE

\* _detach_q().switch(requires_grad): both parameter groups
Switch(rg, flag) ==
    switch_requires_grad(switch_requires_grad(rg, self["q_parameters"], flag),
                         self["block_parameters"], flag)
DetachEnter_mut(rg) == rg
DetachEnter_enable(rg) == Switch(rg, TRUE)
\* _detach_q().__enter__: switch(not fetch_q)
DetachEnter(rg) == Switch(rg, ~self["fetch_q"])
\* _detach_q()._normal_exit: switch(True)
DetachNormalExit(rg) == Switch(rg, TRUE)
\* context_error_handler.__exit__ with an exception: _exception_exit, which
\* _detach_q does not override and which runs _normal_exit
DetachExceptionExit(rg) == DetachNormalExit(rg)

Log(t, e) == [trace EXCEPT ![t] = Append(@, e)]
AddPair(t, w) == [pairs EXCEPT ![t] = @ \cup {<<w, w>>}]

InitVars == <<pc, init_args, self, blocks, err, threads>>

\* ---------------------------------------------------------------- forward
NoCall == [n |-> 0, median |-> FALSE, do_inverse |-> FALSE,
           q_batch |-> NoneV, y_batch |-> NoneV]

QBatches(n) == {NoneV} \cup {Tensor(d) : d \in [1..n -> QLevels]}
YBatches(n) == {NoneV, Tensor(Fill(n, "y"))}

\* forward(net, median=..., do_inverse=..., q_batch=..., y_batch=...), net of n examples
ForwardCall(t, n, median, do_inverse, q_batch, y_batch) ==
    /\ pc = "ready"
    /\ stack[t] = <<>>
    /\ outcome[t] = "idle"
    /\ call' = [call EXCEPT ![t] = [n |-> n, median |-> median,
                                    do_inverse |-> do_inverse,
                                    q_batch |-> q_batch, y_batch |-> y_batch]]
    /\ stack' = [stack EXCEPT ![t] = <<Frame("forward", "median", do_inverse, NoneV)>>]
    /\ outcome' = [outcome EXCEPT ![t] = "running"]
    /\ results' = [results EXCEPT ![t] = <<>>]
    /\ pre_flags' = [pre_flags EXCEPT ![t] = requires_grad]
    /\ pairs' = [pairs EXCEPT ![t] = {}]
    /\ trace' = [trace EXCEPT ![t] = <<>>]
    /\ UNCHANGED <<InitVars, requires_grad>>
    /\ UNCHANGED AuxVars

\* results = self._median_results(net)
ForwardMedian(t) ==
    /\ At(t, "forward", "median")
    /\ stack' = SetTop(t, [Top(t) EXCEPT !.res = GetMedianOutputs(call[t].n),
                                         !.pos = "q_branch"])
    /\ pairs' = AddPair(t, self["latent_dim"] \div 2)
    /\ UNCHANGED <<InitVars, requires_grad, call, outcome, results, pre_flags, trace>>
    /\ UNCHANGED AuxVars

ForwardQBranch(t) ==
    /\ At(t, "forward", "q_branch")
    /\ IF QBranchTaken(self["fetch_q"], call[t].median, call[t].q_batch)
       THEN stack' = Push(t, [Top(t) EXCEPT !.pos = "y_branch"],
                          Frame("q", "project", call[t].do_inverse, call[t].q_batch))
       ELSE stack' = SetTop(t, [Top(t) EXCEPT !.pos = "y_branch"])
    /\ UNCHANGED <<InitVars, requires_grad, call, outcome, results, pre_flags,
                   pairs, trace>>
    /\ UNCHANGED AuxVars

ForwardYBranch(t) ==
    /\ At(t, "forward", "y_branch")
    /\ IF YBranchTaken(self["fetch_cdf"], call[t].median, call[t].y_batch)
       THEN stack' = Push(t, [Top(t) EXCEPT !.pos = "return"],
                          Frame("y", "project", call[t].do_inverse,
                                Tensor(Fill(call[t].n, "y - median"))))
       ELSE stack' = SetTop(t, [Top(t) EXCEPT !.pos = "return"])
    /\ UNCHANGED <<InitVars, requires_grad, call, outcome, results, pre_flags,
                   pairs, trace>>
    /\ UNCHANGED AuxVars

ForwardReturn(t) ==
    /\ At(t, "forward", "return")
    /\ results' = [results EXCEPT ![t] = Top(t).res]
    /\ outcome' = [outcome EXCEPT ![t] = "returned"]
    /\ stack' = [stack EXCEPT ![t] = <<>>]
    /\ UNCHANGED <<InitVars, requires_grad, call, pre_flags, pairs, trace>>
    /\ UNCHANGED AuxVars

\* _q_results: q_batch = self.q_fn(q_batch); q1, q2 = self.q_invertible(q_batch, net)
QProject(t) ==
    /\ At(t, "q", "project")
    /\ stack' = SetTop(t, [Top(t) EXCEPT
                   !.q = [i \in DOMAIN Top(t).batch.data |-> q_fn(Top(t).batch.data[i])],
                   !.i = 0, !.pos = "blocks"])
    /\ pairs' = AddPair(t, self["q_invertible"].to_latent.out_dim)
    /\ trace' = Log(t, <<"q", "begin", Depth(t)>>)
    /\ UNCHANGED <<InitVars, requires_grad, call, outcome, results, pre_flags>>
    /\ UNCHANGED AuxVars

\* for block in self.blocks: q1, q2 = block(q1, q2)
QBlock(t) ==
    /\ At(t, "q", "blocks")
    /\ Top(t).i < Len(blocks)
    /\ trace' = Log(t, <<"q", QOperator, blocks[Top(t).i + 1]>>)
    /\ stack' = SetTop(t, [Top(t) EXCEPT !.i = @ + 1])
    /\ UNCHANGED <<InitVars, requires_grad, call, outcome, results, pre_flags, pairs>>
    /\ UNCHANGED AuxVars

\* y_pack = self.y_invertible.inverse(...); results = self._merge_q_outputs(...)
QUnproject(t) ==
    /\ At(t, "q", "blocks")
    /\ ~(Top(t).i < Len(blocks))
    /\ stack' = SetTop(t, [Top(t) EXCEPT
                   !.res = MergeQOutputs(Top(t).q, GetMedianOutputs(Len(Top(t).q))),
                   !.pos = "inverse"])
    /\ UNCHANGED <<InitVars, requires_grad, call, outcome, results, pre_flags,
                   pairs, trace>>
    /\ UNCHANGED AuxVars

\* q_inverse = None; if do_inverse and self.fetch_cdf: self._y_results(net, y_res.detach())
QInverse(t) ==
    /\ At(t, "q", "inverse")
    /\ IF QInverseTaken(Top(t).do_inverse, self["fetch_cdf"])
       THEN stack' = Push(t, [Top(t) EXCEPT !.pos = "store"],
                          Frame("y", "project", NestedDoInverse(Top(t).do_inverse),
                                Top(t).res["y_res"]))
       ELSE stack' = SetTop(t, [Top(t) EXCEPT !.pos = "store"])
    /\ UNCHANGED <<InitVars, requires_grad, call, outcome, results, pre_flags,
                   pairs, trace>>
    /\ UNCHANGED AuxVars

\* results["q_inverse"] = q_inverse; return results
QReturn(t) ==
    /\ At(t, "q", "store")
    /\ stack' = Pop(t, StoreQInverse(Top(t).res, Top(t).inv))
    /\ UNCHANGED <<InitVars, requires_grad, call, outcome, results, pre_flags,
                   pairs, trace>>
    /\ UNCHANGED AuxVars

\* _y_results: y1, y2 = self.y_invertible(median_residual, net)
YProject(t) ==
    /\ At(t, "y", "project")
    /\ stack' = SetTop(t, [Top(t) EXCEPT !.pos = "enter"])
    /\ pairs' = AddPair(t, self["y_invertible"].to_latent.out_dim)
    /\ trace' = Log(t, <<"y", "begin", Depth(t)>>)
    /\ UNCHANGED <<InitVars, requires_grad, call, outcome, results, pre_flags>>
    /\ UNCHANGED AuxVars

\* with self._detach_q():
YEnter(t) ==
    /\ At(t, "y", "enter")
    /\ requires_grad' = DetachEnter(requires_grad)
    /\ stack' = SetTop(t, [Top(t) EXCEPT !.in_with = TRUE, !.i = 0, !.pos = "blocks"])
    /\ UNCHANGED <<InitVars, call, outcome, results, pre_flags, pairs, trace>>
    /\ UNCHANGED AuxVars

\* for i in range(self.num_blocks): self.blocks[self.num_blocks - i - 1].inverse(y1, y2)
YBlock(t) ==
    /\ At(t, "y", "blocks")
    /\ Top(t).i < self["num_blocks"]
    /\ trace' = Log(t, <<"y", YOperator,
                         blocks[YBlockIndex(self["num_blocks"], Top(t).i) + 1]>>)
    /\ stack' = SetTop(t, [Top(t) EXCEPT !.i = @ + 1])
    /\ UNCHANGED <<InitVars, requires_grad, call, outcome, results, pre_flags, pairs>>
    /\ UNCHANGED AuxVars

\* q_logit = self.q_invertible.inverse(...).net; q = self.q_inv_fn(q_logit)
YUnproject(t) ==
    /\ At(t, "y", "blocks")
    /\ ~(Top(t).i < self["num_blocks"])
    /\ stack' = SetTop(t, [Top(t) EXCEPT
                   !.res = ("q" :> Tensor(Fill(Len(Top(t).batch.data), "sigmoid(q_logit)")))
                           @@ ("q_logit" :> Tensor(Fill(Len(Top(t).batch.data), "q_logit"))),
                   !.pos = "inverse"])
    /\ UNCHANGED <<InitVars, requires_grad, call, outcome, results, pre_flags,
                   pairs, trace>>
    /\ UNCHANGED AuxVars

\* y_inverse_res = None; if do_inverse and self.fetch_q: self._q_results(net, q.detach());
\* qs are the probabilities the learned mappings produced, whatever they are
YInverse(t, qs) ==
    /\ At(t, "y", "inverse")
    /\ IF YInverseTaken(Top(t).do_inverse, self["fetch_q"])
       THEN /\ qs \in [1..Len(Top(t).batch.data) -> QLevels]
            /\ stack' = Push(t, [Top(t) EXCEPT !.pos = "exit"],
                             Frame("q", "project", NestedDoInverse(Top(t).do_inverse),
                                   Tensor(qs)))
       ELSE /\ qs = <<>>
            /\ stack' = SetTop(t, [Top(t) EXCEPT !.pos = "exit"])
    /\ UNCHANGED <<InitVars, requires_grad, call, outcome, results, pre_flags,
                   pairs, trace>>
    /\ UNCHANGED AuxVars

\* leaving the with block normally
YExit(t) ==
    /\ At(t, "y", "exit")
    /\ requires_grad' = DetachNormalExit(requires_grad)
    /\ stack' = SetTop(t, [Top(t) EXCEPT !.in_with = FALSE, !.pos = "return"])
    /\ UNCHANGED <<InitVars, call, outcome, results, pre_flags, pairs, trace>>
    /\ UNCHANGED AuxVars

YReturn(t) ==
    /\ At(t, "y", "return")
    /\ stack' = Pop(t, YResults(Top(t).res["q"], Top(t).res["q_logit"], Top(t).inv))
    /\ UNCHANGED <<InitVars, requires_grad, call, outcome, results, pre_flags,
                   pairs, trace>>
    /\ UNCHANGED AuxVars

\* a tensor operation of the call raises: the exception unwinds every frame,
\* running __exit__ of each with block it leaves
Raise(t) ==
    /\ stack[t] # <<>>
    /\ requires_grad' = IF \E k \in 1..Len(stack[t]) : stack[t][k].in_with
                        THEN DetachExceptionExit(requires_grad)
                        ELSE requires_grad
    /\ stack' = [stack EXCEPT ![t] = <<>>]
    /\ outcome' = [outcome EXCEPT ![t] = "raised"]
    /\ UNCHANGED <<InitVars, call, results, pre_flags, pairs, trace>>
    /\ UNCHANGED AuxVars

\* the caller is done with the mapping (or the exception) of the last call
Consume(t) ==
    /\ outcome[t] \in {"returned", "raised"}
    /\ outcome' = [outcome EXCEPT ![t] = "idle"]
    /\ call' = [call EXCEPT ![t] = NoCall]
    /\ results' = [results EXCEPT ![t] = <<>>]
    /\ pre_flags' = [pre_flags EXCEPT ![t] = <<>>]
    /\ pairs' = [pairs EXCEPT ![t] = {}]
    /\ trace' = [trace EXCEPT ![t] = <<>>]
    /\ UNCHANGED <<InitVars, requires_grad, stack>>
    /\ UNCHANGED AuxVars

\* ---------------------------------------------------------------- specification

NoLat == [phase |-> "idle", order |-> "", T |-> <<>>, orig |-> <<0, 0>>,
          mid |-> <<0, 0>>, cur |-> <<0, 0>>, i |-> 0]
NoFs == [phase |-> "idle", files |-> {}, pending |-> <<>>, saved |-> {},
         loaded |-> {}]

InitCore(ths) ==
    /\ pc = "new"
    /\ init_args = NoArgs
    /\ self = <<>>
    /\ blocks = <<>>
    /\ err = ""
    /\ requires_grad = <<>>
    /\ threads = ths
    /\ stack = [t \in threads |-> <<>>]
    /\ call = [t \in threads |-> NoCall]
    /\ outcome = [t \in threads |-> "idle"]
    /\ results = [t \in threads |-> <<>>]
    /\ pre_flags = [t \in threads |-> <<>>]
    /\ pairs = [t \in threads |-> {}]
    /\ trace = [t \in threads |-> <<>>]

Init ==
    /\ InitCore({1})
    /\ serialized = TRUE
    /\ lat = NoLat
    /\ fs = NoFs

Next ==
    \/ \E in_dim \in InDims, fetch_q \in BOOLEAN, fetch_cdf \in BOOLEAN,
          num_layers \in NumLayersArgs, num_blocks \in NumBlocksArgs,
          latent_dim \in LatentDimArgs :
          Construct(in_dim, fetch_q, fetch_cdf, num_layers, num_blocks, latent_dim)
    \/ InitCheckFetch
    \/ InitCheckBlocks
    \/ InitQInvertible
    \/ InitYInvertible
    \/ InitQParameters
    \/ InitBlock
    \/ InitReturn
    \/ \E flag \in BOOLEAN : RequiresGrad_(flag)
    \/ \E t \in threads :
        \/ \E n \in 1..MaxBatch, median \in BOOLEAN, do_inverse \in BOOLEAN :
              \E q_batch \in QBatches(n), y_batch \in YBatches(n) :
                 ForwardCall(t, n, median, do_inverse, q_batch, y_batch)
        \/ ForwardMedian(t)
        \/ ForwardQBranch(t)
        \/ ForwardYBranch(t)
        \/ ForwardReturn(t)
        \/ QProject(t)
        \/ QBlock(t)
        \/ QUnproject(t)
        \/ QInverse(t)
        \/ QReturn(t)
        \/ YProject(t)
        \/ YEnter(t)
        \/ YBlock(t)
        \/ YUnproject(t)
        \/ \E qs \in UNION {[1..n -> QLevels] : n \in 0..MaxBatch} : YInverse(t, qs)
        \/ YExit(t)
        \/ YReturn(t)
        \/ Raise(t)
        \/ Consume(t)

Spec == Init /\ [][Next]_vars

\* ---------------------------------------------------------------- coupling stack
\* A latent pair <<l1, l2>> holds one number per half; a transition function
\* T is <<a, b>>, standing for T(x) = a * x + b.
Transitions == {<<0, 1>>, <<1, 0>>, <<2, -1>>}
Transition(T, x) == T[1] * x + T[2]
LatentPairs == (-MaxLatent..MaxLatent) \X (-MaxLatent..MaxLatent)
StackSizes == {n \in 0..MaxStackBlocks : ~NumBlocksCheckFails(n)}

\* InvertibleBlock.forward: l1' = l1, l2' = l2 + T(l1)
CouplingForward(T, p) == <<p[1], p[2] + Transition(T, p[1])>>
\* InvertibleBlock.inverse: the closed-form undo of forward
CouplingInverse(T, p) == <<p[1], p[2] - Transition(T, p[1])>>
CouplingApply(op, T, p) ==
    IF op = "forward" THEN CouplingForward(T, p) ELSE CouplingInverse(T, p)

\* the direction the pair is travelling in: "qy" is the quantile direction
\* followed by the CDF direction, "yq" the opposite composition
StackDirection ==
    IF (lat.phase = "first") = (lat.order = "qy") THEN "q" ELSE "y"

\* for block in self.blocks: q1, q2 = block(q1, q2)
StackQBlock ==
    /\ lat.phase \in {"first", "second"}
    /\ StackDirection = "q"
    /\ lat.i < Len(lat.T)
    /\ lat' = [lat EXCEPT !.cur = CouplingApply(QOperator, lat.T[lat.i + 1], lat.cur),
                          !.i = lat.i + 1]
    /\ UNCHANGED <<CoreVars, serialized, fs>>

\* for i in range(self.num_blocks):
\*     y1, y2 = self.blocks[self.num_blocks - i - 1].inverse(y1, y2)
StackYBlock ==
    /\ lat.phase \in {"first", "second"}
    /\ StackDirection = "y"
    /\ lat.i < Len(lat.T)
    /\ lat' = [lat EXCEPT
                 !.cur = CouplingApply(YOperator,
                                       lat.T[YBlockIndex(Len(lat.T), lat.i) + 1], lat.cur),
                 !.i = lat.i + 1]
    /\ UNCHANGED <<CoreVars, serialized, fs>>

\* the loop over the blocks is over: the result of the first traversal is
\* the input of the second one
StackTurn ==
    /\ lat.phase \in {"first", "second"}
    /\ lat.i = Len(lat.T)
    /\ lat' = IF lat.phase = "first"
              THEN [lat EXCEPT !.phase = "second", !.mid = lat.cur, !.i = 0]
              ELSE [lat EXCEPT !.phase = "done"]
    /\ UNCHANGED <<CoreVars, serialized, fs>>

InitStack ==
    /\ InitCore({1})
    /\ serialized = TRUE
    /\ fs = NoFs
    /\ \E n \in StackSizes, p \in LatentPairs, order \in {"qy", "yq"} :
          \E T \in [1..n -> Transitions] :
             lat = [phase |-> "first", order |-> order, T |-> T, orig |-> p,
                    mid |-> p, cur |-> p, i |-> 0]

NextStack == StackQBlock \/ StackYBlock \/ StackTurn

SpecStack == InitStack /\ [][NextStack]_vars

\* ---------------------------------------------------------------- concurrent callers
\* Two threads of control call forward on one instance.  DDRCore takes no
\* lock: every step of a call interleaves with every step of the other one,
\* unless the callers serialize their calls themselves.
ConcThreads == {1, 2}
ConcNumBlocksArgs == {None, Some(1)}
ConcQBatches == {NoneV, Tensor(<<3>>)}
ConcYBatches == YBatches(1)

\* callers that serialize start a call only when no other call is running
MayStart(t) ==
    serialized => \A u \in threads \ {t} : outcome[u] # "running"

ConcForwardCall(t, do_inverse, q_batch, y_batch) ==
    /\ MayStart(t)
    /\ ForwardCall(t, 1, FALSE, do_inverse, q_batch, y_batch)

InitConc ==
    /\ InitCore(ConcThreads)
    /\ serialized \in BOOLEAN
    /\ lat = NoLat
    /\ fs = NoFs

NextConc ==
    \/ \E fetch_q \in BOOLEAN, fetch_cdf \in BOOLEAN, num_blocks \in ConcNumBlocksArgs :
          Construct(8, fetch_q, fetch_cdf, None, num_blocks, None)
    \/ InitCheckFetch
    \/ InitCheckBlocks
    \/ InitQInvertible
    \/ InitYInvertible
    \/ InitQParameters
    \/ InitBlock
    \/ InitReturn
    \/ \E t \in threads :
        \/ \E do_inverse \in BOOLEAN, q_batch \in ConcQBatches, y_batch \in ConcYBatches :
              ConcForwardCall(t, do_inverse, q_batch, y_batch)
        \/ ForwardMedian(t)
        \/ ForwardQBranch(t)
        \/ ForwardYBranch(t)
        \/ ForwardReturn(t)
        \/ QProject(t)
        \/ QBlock(t)
        \/ QUnproject(t)
        \/ QInverse(t)
        \/ QReturn(t)
        \/ YProject(t)
        \/ YEnter(t)
        \/ YBlock(t)
        \/ YUnproject(t)
        \/ \E qs \in {<<>>, <<3>>} : YInverse(t, qs)
        \/ YExit(t)
        \/ YReturn(t)
        \/ Raise(t)
        \/ Consume(t)

SpecConc == InitConc /\ [][NextConc]_vars

\* ---------------------------------------------------------------- save / load
\* A string is the sequence of its characters; fs.files holds the names of
\* the regular files of the saving folder.
SAVING_DELIM == <<"^", "_", "^">>
ZipExtension == <<".", "z", "i", "p">>
\* the identifier argument of save and load
Identifier == <<"m">>
\* the names the wrappers are saved under
WrapperNames == {<<"a">>, <<"a", "b">>, <<"b">>, <<"^", "_", "^">>}

\* str.startswith
StartsWith(s, prefix) ==
    Len(prefix) <= Len(s) /\ SubSeq(s, 1, Len(prefix)) = prefix
\* str.find: the first position of sub in s, 0 when there is none
Find(s, sub) ==
    LET at == {i \in 1..(Len(s) - Len(sub) + 1) : SubSeq(s, i, i + Len(sub) - 1) = sub}
    IN IF at = {} THEN 0 ELSE CHOOSE i \in at : \A j \in at : i <= j
\* str.split(sep)
RECURSIVE StrSplit(_, _)
StrSplit(s, sep) ==
    LET i == Find(s, sep)
    IN IF i = 0 THEN <<s>>
       ELSE <<SubSeq(s, 1, i - 1)>> \o StrSplit(SubSeq(s, i + Len(sep), Len(s)), sep)
\* sep.join(parts)
RECURSIVE StrJoin(_, _)
StrJoin(sep, parts) ==
    IF parts = <<>> THEN <<>>
    ELSE IF Len(parts) = 1 THEN parts[1]
    ELSE parts[1] \o sep \o StrJoin(sep, Tail(parts))
\* os.path.splitext: <<root, extension>>, split at the last dot that is not
\* the first character
SplitExt(s) ==
    LET dots == {i \in 2..Len(s) : s[i] = "."}
    IN IF dots = {} THEN <<s, <<>>>>
       ELSE LET d == CHOOSE i \in dots : \A j \in dots : j <= i
            IN <<SubSeq(s, 1, d - 1), SubSeq(s, d, Len(s))>>

\* _make_saving_path: the file name of the returned path, saving_path + postfix
SavingPath(name) == Identifier \o SAVING_DELIM \o name
\* _make_saving_path with remove_existing: the files os.remove is called on
RemovedExisting(files, name) == {f \in files : StartsWith(f, SavingPath(name))}
\* Wrapper.save(path, compress=True) leaves the archive path + ".zip"
WrapperSave(files, path) == files \cup {path \o ZipExtension}

\* the keys of the mapping load builds from the files of the folder
LoadKeys(files) ==
    {StrSplit(SplitExt(f)[1], SAVING_DELIM)[Len(StrSplit(SplitExt(f)[1], SAVING_DELIM))] :
        f \in {g \in files :
                 LET root == SplitExt(g)[1]
                     parts == StrSplit(root, SAVING_DELIM)
                 IN /\ SplitExt(g)[2] = ZipExtension
                    /\ Find(root, SAVING_DELIM) # 0
                    /\ StrJoin(SAVING_DELIM, SubSeq(parts, 1, Len(parts) - 1)) = Identifier}}

\* the orders in which a dict of distinctly named wrappers is iterated
SaveOrders ==
    {order \in UNION {[1..n -> WrapperNames] : n \in 1..MaxWrappers} :
        \A i, j \in 1..Len(order) : order[i] = order[j] => i = j}

\* save(wrappers, identifier, saving_folder): wrappers = _to_wrappers(wrappers)
SaveCall(order) ==
    /\ fs.phase = "idle"
    /\ fs' = [fs EXCEPT !.phase = "saving", !.pending = order]
    /\ UNCHANGED <<CoreVars, serialized, lat>>

\* one iteration of: wrapper.save(_make_saving_path(name, saving_path, True), compress=True)
SaveStep ==
    /\ fs.phase = "saving"
    /\ fs.pending # <<>>
    /\ LET name == Head(fs.pending)
       IN fs' = [fs EXCEPT
                   !.files = WrapperSave(fs.files \ RemovedExisting(fs.files, name),
                                         SavingPath(name)),
                   !.saved = fs.saved \cup {name},
                   !.pending = Tail(fs.pending)]
    /\ UNCHANGED <<CoreVars, serialized, lat>>

\* return wrappers
SaveReturn ==
    /\ fs.phase = "saving"
    /\ fs.pending = <<>>
    /\ fs' = [fs EXCEPT !.phase = "saved"]
    /\ UNCHANGED <<CoreVars, serialized, lat>>

\* load(identifier, saving_folder); it raises when no wrapper was found
LoadCall ==
    /\ fs.phase = "saved"
    /\ fs' = [fs EXCEPT !.loaded = LoadKeys(fs.files),
                        !.phase = IF LoadKeys(fs.files) = {} THEN "load_failed"
                                  ELSE "loaded"]
    /\ UNCHANGED <<CoreVars, serialized, lat>>

InitSave ==
    /\ InitCore({1})
    /\ serialized = TRUE
    /\ lat = NoLat
    /\ fs = NoFs

NextSave ==
    \/ \E order \in SaveOrders : SaveCall(order)
    \/ SaveStep
    \/ SaveReturn
    \/ LoadCall

SpecSave == InitSave /\ [][NextSave]_vars

\* ---------------------------------------------------------------- properties
FetchError == "something must be fetched, either q or cdf"
BlocksError == "num_blocks should be divided by 2"

Finished(t) == outcome[t] \in {"returned", "raised"}
Returned(t) == outcome[t] = "returned"
\* the call entered _y_results (directly or as the round trip of _q_results)
CdfRan(t) == \E k \in 1..Len(trace[t]) : trace[t][k][1] = "y" /\ trace[t][k][2] = "begin"
QRan(t) == \E k \in 1..Len(trace[t]) : trace[t][k][1] = "q" /\ trace[t][k][2] = "begin"
\* forward itself entered the direction (not as a round trip)
QDirection(t) == \E k \in 1..Len(trace[t]) : trace[t][k] = <<"q", "begin", 2>>
CdfDirection(t) == \E k \in 1..Len(trace[t]) : trace[t][k] = <<"y", "begin", 2>>
Isolated == self["q_parameters"] \cup self["block_parameters"]
Max(a, b) == IF a > b THEN a ELSE b

MedianKeys == {"median", "pos_med_res", "neg_med_res"}
QKeys == {"y_res", "med_add", "med_mul", "q_positive_mask", "q_inverse"}
YKeys == {"q", "q_logit", "y_inverse_res"}
SpecKeys == MedianKeys \cup QKeys \cup YKeys

\* C1: after every forward call that ran the CDF direction, whether it
\* returned or raised, each parameter of q_parameters and block_parameters
\* has the requires_grad flag it had before the call.
C1_FlagsRestored ==
    \A t \in threads :
        (Finished(t) /\ CdfRan(t)) =>
            \A p \in Isolated : requires_grad[p] = pre_flags[t][p]

\* C2: the constructor fails with the "something must be fetched" error
\* exactly when fetch_q and fetch_cdf are both False; the check runs before
\* any projector, parameter or coupling block exists.
C2_FetchCheck ==
    /\ pc = "check_fetch" =>
          (self = <<>> /\ blocks = <<>> /\ requires_grad = <<>>)
    /\ err = FetchError =>
          /\ pc = "failed"
          /\ ~init_args.fetch_q /\ ~init_args.fetch_cdf
          /\ self = <<>> /\ blocks = <<>> /\ requires_grad = <<>>
    /\ (pc \in {"check_blocks", "q_invertible", "y_invertible", "q_parameters", "blocks"}
        \/ (pc = "failed" /\ err # FetchError)) =>
          (init_args.fetch_q \/ init_args.fetch_cdf)
    /\ pc = "ready" => (self["fetch_q"] \/ self["fetch_cdf"])

C2_Witness ==
    /\ pc = "failed"
    /\ err = FetchError
    /\ init_args.in_dim > 0

\* C3 (amended): an odd num_blocks makes the constructor fail; a constructed
\* core has an even num_blocks and holds num_blocks coupling blocks when
\* num_blocks >= 0 and none when it is negative; it holds 2 when num_blocks
\* is not given.
C3_EvenBlocks ==
    /\ pc \in {"q_invertible", "y_invertible", "q_parameters", "blocks"} =>
          NumBlocks % 2 = 0
    /\ (pc = "failed" /\ NumBlocks % 2 # 0) => err \in {FetchError, BlocksError}
    /\ err = BlocksError => (pc = "failed" /\ NumBlocks % 2 # 0 /\ blocks = <<>>)
    /\ pc = "ready" =>
          /\ self["num_blocks"] % 2 = 0
          /\ Len(blocks) = Max(self["num_blocks"], 0)
          /\ Cardinality(self["block_parameters"]) = Len(blocks)
    /\ (pc = "blocks" /\ ~(Len(blocks) < self["num_blocks"])
        /\ IsNone(init_args.num_blocks)) => Len(blocks) = 2

C3_Witness ==
    /\ pc = "ready"
    /\ self["num_blocks"] = 2
    /\ Len(blocks) = 2

\* C3 as stated: every constructed core holds exactly num_blocks blocks.
C3_Original ==
    pc = "ready" =>
        /\ self["num_blocks"] % 2 = 0
        /\ Len(blocks) = self["num_blocks"]

\* C4: a forward call with median=True returns a mapping whose keys are
\* exactly median, pos_med_res and neg_med_res, whatever the batches,
\* do_inverse and the capability flags are.
C4_MedianOnly ==
    \A t \in threads :
        (Returned(t) /\ call[t].median) => DOMAIN results[t] = MedianKeys

C4_Witness ==
    \E t \in threads :
        /\ Returned(t)
        /\ call[t].median
        /\ call[t].do_inverse
        /\ call[t].q_batch.kind = "Tensor"
        /\ call[t].y_batch.kind = "Tensor"
        /\ self["fetch_q"] /\ self["fetch_cdf"]

\* C5 (amended): the keys of a direction that did not run are absent from
\* the returned mapping, but a direction that ran always stores its round
\* trip key: q_inverse is bound to None exactly when the round trip was not
\* requested or fetch_cdf is off, y_inverse_res exactly when it was not
\* requested or fetch_q is off; no other key is ever bound to None.
C5_NullFilled ==
    \A t \in threads :
        Returned(t) =>
            LET r == results[t]
            IN /\ \A k \in DOMAIN r :
                     r[k].kind = "None" => k \in {"q_inverse", "y_inverse_res"}
               /\ (QKeys \cap DOMAIN r # {}) <=> QDirection(t)
               /\ (YKeys \cap DOMAIN r # {}) <=> CdfDirection(t)
               /\ "y_res" \in DOMAIN r =>
                     /\ "q_inverse" \in DOMAIN r
                     /\ r["q_inverse"].kind = "None"
                            <=> ~(call[t].do_inverse /\ self["fetch_cdf"])
               /\ "q" \in DOMAIN r =>
                     /\ "y_inverse_res" \in DOMAIN r
                     /\ r["y_inverse_res"].kind = "None"
                            <=> ~(call[t].do_inverse /\ self["fetch_q"])

C5_Witness ==
    \E t \in threads :
        /\ Returned(t)
        /\ "q_inverse" \in DOMAIN results[t]
        /\ results[t]["q_inverse"].kind = "None"
        /\ "y_inverse_res" \in DOMAIN results[t]
        /\ results[t]["y_inverse_res"].kind = "None"
        /\ ~call[t].do_inverse

\* C5 as stated: no key of a returned mapping is bound to None.
C5_Original ==
    \A t \in threads :
        Returned(t) => \A k \in DOMAIN results[t] : results[t][k].kind # "None"

\* C6 (amended): every key of a returned mapping is one of the eleven listed
\* keys or med_res, and med_res (the selected median residual) is present
\* exactly when the quantile direction's y_res is.
C6_KeysWithMedRes ==
    \A t \in threads :
        Returned(t) =>
            /\ DOMAIN results[t] \subseteq SpecKeys \cup {"med_res"}
            /\ "med_res" \in DOMAIN results[t] <=> "y_res" \in DOMAIN results[t]

C6_Witness ==
    \E t \in threads :
        /\ Returned(t)
        /\ "med_res" \in DOMAIN results[t]
        /\ "q_logit" \in DOMAIN results[t]

\* C6 as stated: every key of a returned mapping is one of the eleven listed keys.
C6_Original ==
    \A t \in threads : Returned(t) => DOMAIN results[t] \subseteq SpecKeys

\* C7 (amended): forward with median=True and an explicit q_batch is not
\* rejected: the quantile direction is never entered, q_batch is ignored and
\* the call returns the median-only mapping.
C7_MedianIgnoresQ ==
    \A t \in threads :
        (call[t].median /\ call[t].q_batch.kind = "Tensor") =>
            /\ ~QRan(t)
            /\ \A k \in 1..Len(stack[t]) : stack[t][k].fn # "q"
            /\ Returned(t) => (DOMAIN results[t]) \cap (QKeys \cup {"med_res"}) = {}
            /\ Returned(t) => DOMAIN results[t] = MedianKeys

C7_Witness ==
    \E t \in threads :
        /\ Returned(t)
        /\ call[t].median
        /\ call[t].q_batch.kind = "Tensor"
        /\ call[t].y_batch.kind = "None"
        /\ self["fetch_q"]

\* C7 as stated: a call with median=True and an explicit q_batch raises and
\* returns no mapping.
C7_Original ==
    \A t \in threads :
        (Finished(t) /\ call[t].median /\ call[t].q_batch.kind = "Tensor") =>
            outcome[t] = "raised"

\* C8: no constructor call with a non-positive in_dim or latent_dim reaches
\* its end: a core that is about to be returned has positive dimensions.
C8_PositiveDims ==
    (pc = "blocks" /\ ~(Len(blocks) < self["num_blocks"])) =>
        (init_args.in_dim > 0 /\ self["latent_dim"] > 0)

\* C9: a constructed core has an even latent_dim (512 when not given) and
\* every latent pair a call creates has two halves of width latent_dim / 2
\* that sum to latent_dim.
C9_EvenLatent ==
    /\ (pc = "blocks" /\ IsNone(init_args.latent_dim)) => self["latent_dim"] = 512
    /\ pc = "ready" =>
          /\ self["latent_dim"] % 2 = 0
          /\ \A t \in threads : \A w \in pairs[t] :
                /\ w[1] = w[2]
                /\ w[1] + w[2] = self["latent_dim"]

\* C10: in the quantile direction, for every example, q_positive_mask is
\* true exactly when q > 0.5 (rescaled level strictly positive), the positive
\* median residual is selected when the mask is true and the negative one
\* otherwise; q = 0.5 selects the negative residual.
Selection(levels, res) ==
    /\ Len(res["q_positive_mask"].data) = Len(levels)
    /\ Len(res["med_res"].data) = Len(levels)
    /\ \A i \in 1..Len(levels) :
          /\ res["q_positive_mask"].data[i] <=> (levels[i] > 2)
          /\ res["med_res"].data[i] = (IF levels[i] > 2 THEN "pos_med_res"
                                       ELSE "neg_med_res")
          /\ res["y_res"].data[i][1] = res["med_res"].data[i]
          /\ levels[i] = 2 => /\ ~res["q_positive_mask"].data[i]
                              /\ res["med_res"].data[i] = "neg_med_res"

C10_ResidualSelection ==
    \A t \in threads :
        /\ \A k \in 1..Len(stack[t]) :
              (stack[t][k].fn = "q" /\ "q_positive_mask" \in DOMAIN stack[t][k].res) =>
                  Selection(stack[t][k].batch.data, stack[t][k].res)
        /\ (Returned(t) /\ "q_positive_mask" \in DOMAIN results[t]) =>
              Selection(call[t].q_batch.data, results[t])

C10_Witness ==
    \E t \in threads :
        /\ Returned(t)
        /\ call[t].q_batch.kind = "Tensor"
        /\ call[t].q_batch.data = <<2, 3>>
        /\ "q_positive_mask" \in DOMAIN results[t]
        /\ results[t]["q_positive_mask"].data = <<FALSE, TRUE>>
        /\ results[t]["med_res"].data = <<"neg_med_res", "pos_med_res">>

\* ---------------------------------------------------------------- traversal
IsBegin(e) == e[2] = "begin"
\* the pass that begins at trace position k ends before the next pass begins
PassEnd(tr, k) ==
    IF \E j \in (k + 1)..Len(tr) : IsBegin(tr[j])
    THEN CHOOSE j \in (k + 1)..Len(tr) :
            /\ IsBegin(tr[j])
            /\ \A m \in (k + 1)..(j - 1) : ~IsBegin(tr[m])
    ELSE Len(tr) + 1
PassOps(tr, k) == SubSeq(tr, k + 1, PassEnd(tr, k) - 1)
IsPrefix(a, b) == Len(a) <= Len(b) /\ \A i \in 1..Len(a) : a[i] = b[i]
ExpectedOps(dir) ==
    IF dir = "q" THEN [i \in 1..Len(blocks) |-> <<"q", "forward", i - 1>>]
    ELSE [i \in 1..Len(blocks) |-> <<"y", "inverse", Len(blocks) - i>>]

\* C12: a quantile pass applies the forward operator of blocks 0, 1, ..., N-1
\* in that order and a CDF pass the inverse operator of blocks N-1, ..., 0 in
\* that order; a finished pass has applied every block exactly once, and no
\* pass applies the other direction's operator.
C12_TraversalOrder ==
    \A t \in threads :
        \A k \in 1..Len(trace[t]) :
            IsBegin(trace[t][k]) =>
                /\ IsPrefix(PassOps(trace[t], k), ExpectedOps(trace[t][k][1]))
                /\ (PassEnd(trace[t], k) <= Len(trace[t]) \/ Returned(t)) =>
                      PassOps(trace[t], k) = ExpectedOps(trace[t][k][1])

C12_Witness ==
    \E t \in threads :
        /\ Returned(t)
        /\ trace[t] = << <<"q", "begin", 2>>, <<"q", "forward", 0>>, <<"q", "forward", 1>>,
                         <<"y", "begin", 2>>, <<"y", "inverse", 1>>, <<"y", "inverse", 0>> >>

\* ---------------------------------------------------------------- branches
Begins(t, dir) ==
    {k \in 1..Len(trace[t]) : trace[t][k][1] = dir /\ IsBegin(trace[t][k])}
Given(batch) == batch.kind # "None"

\* C13: the median keys are in the output of every call; the quantile
\* direction is entered, and its results are in the output, exactly when
\* fetch_q holds, median is False and q_batch is given; the CDF direction
\* likewise with fetch_cdf and y_batch; a batch given for a disabled
\* capability never starts its direction.
C13_BranchSelection ==
    \A t \in threads :
        /\ QDirection(t) =>
              (self["fetch_q"] /\ ~call[t].median /\ Given(call[t].q_batch))
        /\ CdfDirection(t) =>
              (self["fetch_cdf"] /\ ~call[t].median /\ Given(call[t].y_batch))
        /\ Returned(t) =>
              /\ MedianKeys \subseteq DOMAIN results[t]
              /\ QDirection(t) <=>
                    (self["fetch_q"] /\ ~call[t].median /\ Given(call[t].q_batch))
              /\ CdfDirection(t) <=>
                    (self["fetch_cdf"] /\ ~call[t].median /\ Given(call[t].y_batch))
              /\ ({"y_res", "med_add", "med_mul", "q_positive_mask"} \subseteq DOMAIN results[t])
                    <=> QDirection(t)
              /\ ({"q", "q_logit"} \subseteq DOMAIN results[t]) <=> CdfDirection(t)
              /\ (QKeys \cap DOMAIN results[t] # {}) => QDirection(t)
              /\ (YKeys \cap DOMAIN results[t] # {}) => CdfDirection(t)

C13_Witness ==
    \E t \in threads :
        /\ Returned(t)
        /\ ~self["fetch_q"] /\ self["fetch_cdf"]
        /\ ~call[t].median
        /\ Given(call[t].q_batch) /\ Given(call[t].y_batch)
        /\ "y_res" \notin DOMAIN results[t]
        /\ "q" \in DOMAIN results[t]

\* C14: without do_inverse each direction is evaluated at most once, only by
\* forward itself, and no round trip value is produced; a returned q_inverse
\* is not None exactly when do_inverse is set, the quantile direction ran and
\* fetch_cdf holds, and a returned y_inverse_res is not None exactly when
\* do_inverse is set, the CDF direction ran and fetch_q holds.
C14_RoundTripOnRequest ==
    \A t \in threads :
        /\ (outcome[t] # "idle" /\ ~call[t].do_inverse) =>
              /\ Cardinality(Begins(t, "q")) <= 1
              /\ Cardinality(Begins(t, "y")) <= 1
              /\ \A k \in 1..Len(trace[t]) : IsBegin(trace[t][k]) => trace[t][k][3] = 2
              /\ \A k \in 1..Len(stack[t]) : stack[t][k].inv.kind = "None"
        /\ Returned(t) =>
              /\ ("q_inverse" \in DOMAIN results[t] /\ results[t]["q_inverse"].kind # "None")
                    <=> (call[t].do_inverse /\ QDirection(t) /\ self["fetch_cdf"])
              /\ ("y_inverse_res" \in DOMAIN results[t]
                  /\ results[t]["y_inverse_res"].kind # "None")
                    <=> (call[t].do_inverse /\ CdfDirection(t) /\ self["fetch_q"])

C14_Witness ==
    \E t \in threads :
        /\ Returned(t)
        /\ call[t].do_inverse
        /\ QDirection(t) /\ ~CdfDirection(t)
        /\ results[t]["q_inverse"].kind = "Tensor"

\* C18: the nested call of a round trip runs with do_inverse = False: the
\* call stack never holds more than forward, one direction and its round
\* trip, the round trip is of the other direction, and a forward call makes
\* at most four direction passes.
C18_NoNestedRoundTrip ==
    \A t \in threads :
        /\ Len(stack[t]) <= 3
        /\ Len(stack[t]) = 3 =>
              /\ ~stack[t][3].do_inverse
              /\ stack[t][3].fn # stack[t][2].fn
              /\ stack[t][2].do_inverse
        /\ Cardinality(Begins(t, "q")) + Cardinality(Begins(t, "y")) <= 4
        /\ \A k \in 1..Len(trace[t]) :
              IsBegin(trace[t][k]) => trace[t][k][3] \in {2, 3}
        /\ \A d \in {"q", "y"} :
              Cardinality({k \in Begins(t, d) : trace[t][k][3] = 3}) <= 1

C18_Witness ==
    \E t \in threads :
        /\ Returned(t)
        /\ Cardinality(Begins(t, "q")) = 2
        /\ Cardinality(Begins(t, "y")) = 2

\* ---------------------------------------------------------------- isolation
\* the call is inside the with self._detach_q() section of _y_results
InDetach(t) == \E k \in 1..Len(stack[t]) : stack[t][k].in_with

\* C15 (amended): while a call is inside the isolated section of _y_results,
\* every parameter of q_parameters and every coupling-block parameter has
\* requires_grad = not fetch_q: accumulation is disabled for all of them
\* when fetch_q is True; when fetch_q is False q_parameters is empty and the
\* coupling-block parameters have accumulation enabled.
C15_IsolationFollowsFetchQ ==
    \A t \in threads :
        InDetach(t) =>
            /\ \A p \in Isolated : requires_grad[p] = ~self["fetch_q"]
            /\ ~self["fetch_q"] => self["q_parameters"] = {}

C15_Witness ==
    \E t \in threads :
        /\ At(t, "y", "blocks")
        /\ Top(t).in_with
        /\ Top(t).i = 1
        /\ ~self["fetch_q"]
        /\ self["block_parameters"] # {}
        /\ \A p \in self["block_parameters"] : requires_grad[p] /\ ~pre_flags[t][p]

\* C15 as stated: inside the isolated section of _y_results accumulation is
\* disabled for every parameter of q_parameters and every coupling-block
\* parameter, in every configuration that has the CDF path.
C15_Original ==
    \A t \in threads :
        InDetach(t) => \A p \in Isolated : ~requires_grad[p]

\* C16: q_parameters holds only parameters of the quantile-producing path:
\* it is empty when fetch_q is False, and with both capabilities enabled it
\* shares no parameter with the CDF path's from-latent mapping
\* q_invertible.from_latent.
C16_QParametersExclusive ==
    pc = "ready" =>
        /\ ~self["fetch_q"] => self["q_parameters"] = {}
        /\ (self["fetch_q"] /\ self["fetch_cdf"]) =>
              self["q_parameters"] \cap self["q_invertible"].from_latent.params = {}

\* ---------------------------------------------------------------- stack
\* C11: for every even number of coupling blocks and every latent pair, the
\* CDF-direction traversal applied to the result of the quantile-direction
\* traversal of the same stack returns the pair it started from, and so does
\* the quantile-direction traversal applied to the result of the CDF one.
C11_StackInvertible ==
    lat.phase = "done" => lat.cur = lat.orig

C11_Witness ==
    /\ lat.phase = "done"
    /\ Len(lat.T) = 4
    /\ lat.order = "qy"
    /\ lat.mid # lat.orig
    /\ lat.cur = lat.orig

\* ---------------------------------------------------------------- threads
\* a call is inside its isolated section, the quantile path exists, and a
\* parameter the section froze accumulates gradients again
Race ==
    \E t \in threads :
        /\ InDetach(t)
        /\ self["fetch_q"]
        /\ \E p \in Isolated : requires_grad[p]

\* C17: when the callers serialize their calls on the instance, no call is
\* ever inside its isolated section with a re-enabled flag; without
\* serialization two calls in the CDF direction reach such a state.
C17_SerializedNoRace == serialized => ~Race

C17_Witness ==
    /\ ~serialized
    /\ Race
    /\ \A t \in threads : InDetach(t) \/ (stack[t] # <<>> /\ Top(t).pos = "return")
    /\ \E t \in threads : stack[t] # <<>> /\ Top(t).fn = "y" /\ Top(t).pos = "return"

\* ---------------------------------------------------------------- saving
\* C19: after save returns, the archive of every saved name is in the
\* folder, and load returns a mapping whose keys are exactly the saved names.
C19_SaveLoadRoundTrip ==
    /\ fs.phase \in {"saved", "loaded", "load_failed"} =>
          \A name \in fs.saved : (SavingPath(name) \o ZipExtension) \in fs.files
    /\ fs.phase # "load_failed"
    /\ fs.phase = "loaded" => fs.loaded = fs.saved

====
